---- MODULE Spec2Model ----
(***************************************************************************)
(* Pending-changes store of the bruh.bot admin dashboard, with the layout  *)
(* Save control and the user-management page that consume it.              *)
(*                                                                         *)
(* JavaScript values are modelled as follows.                              *)
(*  - a plain object is a function from its keys (strings) to its values;  *)
(*    the empty object {} is the empty function <<>>;                      *)
(*  - an optional property that is undefined is a key missing from the     *)
(*    function's domain;                                                   *)
(*  - a value whose runtime type matters (the entries of the AI patch) is  *)
(*    a tagged record: [s |-> n] a scalar, [a |-> seq] an array,           *)
(*    [o |-> fn] a non-array object.                                       *)
(***************************************************************************)
EXTENDS Integers, Sequences, FiniteSets, TLC

VARIABLES
    pendingChanges,     \* useState<PendingChanges>: the store
    hasPendingChanges,  \* the derived flag as of the last render
    config,             \* the mounted page's `config` memo as of the last render
    isSaving,           \* ProtectedLayout's useState(false)
    savePc,             \* where handleSave is suspended: "idle", "config", "aiProvider"
    changes,            \* handleSave's local `changes` ({} while idle)
    toast,              \* the notification raised by the last step ("none" if none)
    route,              \* the page mounted in the layout's Outlet
    admins,             \* user-management: useState<Array<string>>
    errors,             \* user-management: the inline errors (<<>> is null)
    umRequest,          \* user-management: the body of its pending mutation, if any
    serverConfig,       \* the backend's configuration document
    data,               \* useConfig(): the snapshot last fetched
    storeCall,          \* StoreSpec: the store operation called last, with its argument
    hookResult,         \* what the last call of useConfigChanges() did
    authState,          \* AuthProvider: useState<AuthState>
    localStorage,       \* the item AUTH_STORAGE_KEY of localStorage
    initAuth,           \* the mount effect's initAuth(): its position and locals
    logoutCall,         \* a running logout(): its position
    refreshCall,        \* a running refreshUser(): its position and locals
    blockCalls          \* ConfigAPIClient: the running block-list helper of each caller

\* the store and what the last render derived from it
storeVars == <<pendingChanges, hasPendingChanges, config>>
saveVars == <<isSaving, savePc, changes>>
pageVars == <<route, admins, errors, umRequest>>
netVars == <<serverConfig, data>>
appVars == <<isSaving, savePc, changes, toast, route, admins, errors, umRequest,
             serverConfig, data>>
authVars == <<authState, localStorage, initAuth, logoutCall, refreshCall>>
\* what the dashboard's pages and the store leave alone
restVars == <<hookResult, authState, localStorage, initAuth, logoutCall, refreshCall,
              blockCalls>>
vars == <<pendingChanges, hasPendingChanges, config, isSaving, savePc, changes,
          toast, route, admins, errors, umRequest, serverConfig, data, storeCall,
          hookResult, authState, localStorage, initAuth, logoutCall, refreshCall,
          blockCalls>>

----------------------------------------------------------------------------
(* Bounds and input sets *)

MaxArrayLen == 1
MaxVersion == 2
IdLen == 18

\* the keys of DynamicConfig that hold an object, and those a PATCH /config accepts
NestedKeys == {"deleteUserMessages", "aiConfig"}
UpdateConfigRequestKeys ==
    {"invisible", "mentionCooldown", "adminIds", "cooldownBypassList", "globalBlockList",
     "promptsPath", "mongoMessagesDbName", "mongoMessagesCollectionName",
     "allowedBotsToRespondTo"}

ScalarVals == {1, 2}
Fields == {"x", "y"}
AIKeys == {"openai", "ollama"}
CooldownValues == {20, 45}
IdDigits == {1}
Routes == {"bots", "ai", "user-management"}

----------------------------------------------------------------------------
(* JavaScript helpers *)

EmptyObj == <<>>

\* null and undefined, apart from every object
Null == [null |-> TRUE]
Undefined == [undefined |-> TRUE]

\* Object.keys(o)
Keys(o) == DOMAIN o

\* { ...a, ...b }
Spread(a, b) ==
    [k \in DOMAIN a \cup DOMAIN b |-> IF k \in DOMAIN b THEN b[k] ELSE a[k]]

\* obj.prop || {}   (also what spreading an undefined property contributes)
Slot(obj, prop) == IF prop \in DOMAIN obj THEN obj[prop] ELSE EmptyObj

\* { ...obj, [prop]: value }
With(obj, prop, value) ==
    [k \in DOMAIN obj \cup {prop} |-> IF k = prop THEN value ELSE obj[k]]

IsScalar(v) == "s" \in DOMAIN v
\* Array.isArray(v)
IsArray(v) == "a" \in DOMAIN v
IsPlainObject(v) == "o" \in DOMAIN v
\* typeof v === 'object' (no null among the values)
TypeofObject(v) == IsArray(v) \/ IsPlainObject(v)
\* the truthiness test `v && ...`
Truthy(v) == IF IsScalar(v) THEN v.s # 0 ELSE TRUE

\* the own enumerable properties an object spread copies out of v
OwnProps(v) ==
    IF IsPlainObject(v) THEN v.o
    ELSE IF IsArray(v)
         THEN LET idx == {ToString(i - 1) : i \in 1..Len(v.a)}
              IN [k \in idx |-> v.a[CHOOSE i \in 1..Len(v.a) : ToString(i - 1) = k]]
         ELSE EmptyObj

----------------------------------------------------------------------------
(* The store: ConfigChangesProvider *)

\* an addConfigChange that forgets the earlier keys of the slot
ReplaceConfigSlot(prev, updates) == With(prev, "config", updates)

\* an addConfigChange that builds the store anew from the generic slot
addConfigChangeAlone(prev, updates) ==
    ("config" :> Spread(Slot(prev, "config"), updates))

addConfigChange(prev, updates) ==
    With(prev, "config", Spread(Slot(prev, "config"), updates))

\* an entry that is always overwritten, never merged
MergedEntryOverwriting(currentAi, updates, key) == updates[key]

\* a merge that lacks the Array.isArray test
MergedEntryMergingArrays(currentAi, updates, key) ==
    LET updateValue == updates[key]
    IN IF /\ TypeofObject(updateValue)
          /\ key \in DOMAIN currentAi
          /\ Truthy(currentAi[key])
          /\ TypeofObject(currentAi[key])
       THEN [o |-> Spread(OwnProps(currentAi[key]), OwnProps(updateValue))]
       ELSE updateValue

\* the value addAIConfigChange stores under `key`
MergedEntry(currentAi, updates, key) ==
    LET updateValue == updates[key]
    IN IF /\ TypeofObject(updateValue)
          /\ key \in DOMAIN currentAi
          /\ Truthy(currentAi[key])
          /\ TypeofObject(currentAi[key])
          /\ ~IsArray(updateValue)
       THEN [o |-> Spread(OwnProps(currentAi[key]), OwnProps(updateValue))]
       ELSE updateValue

\* an addAIConfigChange that keeps only the keys of this update
addAIConfigChangeDroppingOthers(prev, updates) ==
    With(prev, "aiConfig",
         [key \in DOMAIN updates |-> MergedEntry(Slot(prev, "aiConfig"), updates, key)])

addAIConfigChange(prev, updates) ==
    LET currentAi == Slot(prev, "aiConfig")
        mergedAi == [key \in DOMAIN currentAi \cup DOMAIN updates |->
                        IF key \in DOMAIN updates
                        THEN MergedEntry(currentAi, updates, key)
                        ELSE currentAi[key]]
    IN With(prev, "aiConfig", mergedAi)

\* a clearChanges that resets the generic slot only
clearConfigSlotOnly(prev) == With(prev, "config", EmptyObj)

\* setPendingChanges({}): the store after clearChanges() was called in `prev`
clearChanges(prev) == EmptyObj

\* the single-provider variant: the provider slot is replaced wholesale
addAIProviderChange(prev, update) == With(prev, "aiProvider", update)

\* the read accessor the layout calls
getPendingChanges == pendingChanges

\* a flag that looks at the generic slot only
HasPendingConfigOnly(pc) == Cardinality(Keys(Slot(pc, "config"))) > 0

HasPending(pc) ==
    \/ Cardinality(Keys(Slot(pc, "config"))) > 0
    \/ Cardinality(Keys(Slot(pc, "aiConfig"))) > 0

----------------------------------------------------------------------------
(* What the pages show: their `config` memo *)

\* an overlay that lets the server's value win
BotsPageConfigServerWins(d, pc) == Spread(Slot(pc, "config"), d)

\* an overlay that keeps the patched fields only
BotsPageConfigPatchOnly(d, pc) == Slot(pc, "config")

\* an overlay that merges one level into the nested objects
BotsPageConfigDeep(d, pc) ==
    LET patch == Slot(pc, "config")
    IN [k \in DOMAIN d \cup DOMAIN patch |->
           IF k \notin DOMAIN patch THEN d[k]
           ELSE IF k \in NestedKeys /\ k \in DOMAIN d THEN Spread(d[k], patch[k])
                ELSE patch[k]]

\* a page that shows the snapshot as fetched
BotsPageConfigSnapshot(d, pc) == d

\* BotsPage: { ...data.config, ...pendingChanges.config }
BotsPageConfig(d, pc) == Spread(d, Slot(pc, "config"))

\* AIPage: data.config.aiConfig, without a merge
AIPageConfig(d, pc) == d.aiConfig

\* the memo of the page mounted at route r (user-management has none)
PageConfig(r, d, pc) ==
    IF r = "bots" THEN BotsPageConfig(d, pc)
    ELSE IF r = "ai" THEN AIPageConfig(d, pc)
         ELSE EmptyObj

\* a state update of the store followed by the re-render of its consumers
SetPendingChanges(new) ==
    /\ pendingChanges' = new
    /\ hasPendingChanges' = HasPending(new)
    /\ config' = PageConfig(route, data, new)

----------------------------------------------------------------------------
(* Admin identifiers and their validation (user-management.tsx) *)

\* A typed identifier is a record of what the schema reads of the string: its
\* length and whether it matches /^\d+$/; `text` tells identifiers apart.
ValidId(d) == [text |-> ToString(d), length |-> IdLen, numeric |-> TRUE]
ShortId == [text |-> "123", length |-> 3, numeric |-> TRUE]
AlphaId == [text |-> "x", length |-> IdLen, numeric |-> FALSE]
AdminInputs == {ValidId(d) : d \in IdDigits} \cup {ShortId, AlphaId}

\* AdminIdSchema.safeParse(id).error.issues.map(issue => issue.message)
SchemaIssues(id) ==
    (IF id.length # IdLen THEN <<"Admin ID must be exactly 18 characters">> ELSE <<>>)
    \o (IF id.numeric THEN <<>> ELSE <<"Admin ID must contain only numbers">>)

\* list.includes(x)
Includes(list, x) == \E i \in 1..Len(list) : list[i] = x

\* list.filter(id => id !== x)
RECURSIVE Without(_, _)
Without(list, x) ==
    IF list = <<>> THEN <<>>
    ELSE IF Head(list) = x THEN Without(Tail(list), x)
         ELSE <<Head(list)>> \o Without(Tail(list), x)

Occurrences(list, x) == Cardinality({i \in 1..Len(list) : list[i] = x})

\* the page's hasChanges memo: the two lists differ as sorted lists
HasChanges ==
    LET original == data.adminIds
    IN \/ Len(original) # Len(admins)
       \/ \E i \in 1..Len(original) :
             Occurrences(original, original[i]) # Occurrences(admins, original[i])

----------------------------------------------------------------------------
(* The backend and the query cache *)

\* PATCH /config: the body's fields replace the document's, the version moves on
PatchConfig(doc, body) ==
    [k \in DOMAIN doc |->
        IF k = "configVersion" THEN doc[k] + 1
        ELSE IF k \in DOMAIN body \cap UpdateConfigRequestKeys THEN body[k]
             ELSE doc[k]]

\* PATCH /config/ai-provider: the generic fields stay, the version moves on
PatchAIProvider(doc) == [doc EXCEPT !.configVersion = @ + 1]

CanCommit == serverConfig.configVersion < MaxVersion

\* the effect of user-management on [data]: the local list follows the snapshot
AdminsAfterFetch(newData) ==
    IF route = "user-management" THEN newData.adminIds ELSE admins

Refetch ==
    /\ data # serverConfig
    /\ data' = serverConfig
    /\ admins' = AdminsAfterFetch(serverConfig)
    /\ config' = PageConfig(route, serverConfig, pendingChanges)
    /\ toast' = "none"
    /\ UNCHANGED <<pendingChanges, hasPendingChanges, saveVars, route, errors,
                   umRequest, serverConfig>>
    /\ UNCHANGED <<storeCall, restVars>>

\* leaving a page drops its local state; mounting user-management runs its effect
Navigate(r) ==
    /\ r # route
    /\ umRequest = <<>>
    /\ route' = r
    /\ admins' = IF r = "user-management" THEN data.adminIds ELSE <<>>
    /\ errors' = <<>>
    /\ config' = PageConfig(r, data, pendingChanges)
    /\ toast' = "none"
    /\ UNCHANGED <<pendingChanges, hasPendingChanges, saveVars, umRequest, netVars>>
    /\ UNCHANGED <<storeCall, restVars>>

----------------------------------------------------------------------------
(* Pages that record edits in the store *)

PageUpdates == {("mentionCooldown" :> 45)}
AppAIUpdates == {("openai" :> [o |-> ("x" :> 1)])}
AIPageUpdates == {("maxDailyImages" :> 5)}
ProviderUpdates == {[provider |-> "openai", apiKey |-> "k1"]}
\* the AI page on its own edits two providers ('antropic' is AIProvider's spelling)
AIPageProviderUpdates ==
    ProviderUpdates \cup {[provider |-> "antropic", apiKey |-> "k2"],
                          [provider |-> "openai", preferredModel |-> "m1"]}

\* a handler that also assigns the update's fields to the fetched snapshot
BotsHandleUpdateMutatingData(updates) ==
    /\ route = "bots"
    /\ pendingChanges' = addConfigChange(pendingChanges, updates)
    /\ hasPendingChanges' = HasPending(pendingChanges')
    /\ data' = Spread(data, updates)
    /\ config' = PageConfig(route, data', pendingChanges')
    /\ toast' = "none"
    /\ UNCHANGED <<saveVars, pageVars, serverConfig>>
    /\ UNCHANGED <<storeCall, restVars>>

\* BotsPage.handleUpdate
BotsHandleUpdate(updates) ==
    /\ route = "bots"
    /\ SetPendingChanges(addConfigChange(pendingChanges, updates))
    /\ toast' = "none"
    /\ UNCHANGED <<saveVars, pageVars, netVars>>
    /\ UNCHANGED <<storeCall, restVars>>

\* the deep-partial AI route
AIConfigEdit(updates) ==
    /\ route = "ai"
    /\ SetPendingChanges(addAIConfigChange(pendingChanges, updates))
    /\ toast' = "none"
    /\ UNCHANGED <<saveVars, pageVars, netVars>>
    /\ UNCHANGED <<storeCall, restVars>>

\* AIPage.handleUpdate: the whole AI configuration goes into the generic slot
AIHandleUpdate(updates) ==
    /\ route = "ai"
    /\ SetPendingChanges(
           addConfigChange(pendingChanges, ("aiConfig" :> Spread(config, updates))))
    /\ toast' = "none"
    /\ UNCHANGED <<saveVars, pageVars, netVars>>
    /\ UNCHANGED <<storeCall, restVars>>

\* a handler that adds the update to the provider patch already pending
AIHandleUpdateProviderMerging(update) ==
    /\ route = "ai"
    /\ SetPendingChanges(
           addAIProviderChange(pendingChanges,
                               Spread(Slot(pendingChanges, "aiProvider"), update)))
    /\ toast' = "none"
    /\ UNCHANGED <<saveVars, pageVars, netVars>>
    /\ UNCHANGED <<storeCall, restVars>>

\* AIPage.handleUpdateProvider
AIHandleUpdateProvider(update) ==
    /\ route = "ai"
    /\ SetPendingChanges(addAIProviderChange(pendingChanges, update))
    /\ toast' = "none"
    /\ UNCHANGED <<saveVars, pageVars, netVars>>
    /\ UNCHANGED <<storeCall, restVars>>

----------------------------------------------------------------------------
(* user-management.tsx *)

\* a handler that appends whatever was typed
HandleAddAdminUnchecked(id) ==
    /\ route = "user-management"
    /\ toast' = "none"
    /\ errors' = <<>>
    /\ admins' = Append(admins, id)
    /\ SetPendingChanges(addConfigChange(pendingChanges, ("adminIds" :> Append(admins, id))))
    /\ UNCHANGED <<saveVars, route, umRequest, netVars>>
    /\ UNCHANGED <<storeCall, restVars>>

HandleAddAdmin(id) ==
    /\ route = "user-management"
    /\ toast' = "none"
    /\ IF SchemaIssues(id) # <<>>
       THEN /\ errors' = SchemaIssues(id)
            /\ UNCHANGED <<storeVars, admins>>
       ELSE IF Includes(admins, id)
            THEN /\ errors' = <<"This ID is already an admin">>
                 /\ UNCHANGED <<storeVars, admins>>
            ELSE /\ errors' = <<>>
                 /\ admins' = Append(admins, id)
                 /\ SetPendingChanges(
                        addConfigChange(pendingChanges, ("adminIds" :> Append(admins, id))))
    /\ UNCHANGED <<saveVars, route, umRequest, netVars>>
    /\ UNCHANGED <<storeCall, restVars>>

HandleRemoveAdmin(idToRemove) ==
    /\ route = "user-management"
    /\ Includes(admins, idToRemove)
    /\ admins' = Without(admins, idToRemove)
    /\ SetPendingChanges(
           addConfigChange(pendingChanges, ("adminIds" :> Without(admins, idToRemove))))
    /\ toast' = "none"
    /\ UNCHANGED <<saveVars, route, errors, umRequest, netVars>>
    /\ UNCHANGED <<storeCall, restVars>>

HandleUndo ==
    /\ route = "user-management"
    /\ HasChanges
    /\ admins' = data.adminIds
    /\ SetPendingChanges(addConfigChange(pendingChanges, ("adminIds" :> data.adminIds)))
    /\ errors' = <<>>
    /\ toast' = "Changes discarded"
    /\ UNCHANGED <<saveVars, route, umRequest, netVars>>
    /\ UNCHANGED <<storeCall, restVars>>

HandleSaveChanges ==
    /\ route = "user-management"
    /\ umRequest = <<>>
    /\ HasChanges
    /\ errors' = <<>>
    /\ umRequest' = <<("adminIds" :> admins)>>
    /\ toast' = "none"
    /\ UNCHANGED <<storeVars, saveVars, route, admins, netVars>>
    /\ UNCHANGED <<storeCall, restVars>>

UpdateAdminsResolve ==
    /\ umRequest # <<>>
    /\ CanCommit
    /\ serverConfig' = PatchConfig(serverConfig, umRequest[1])
    /\ umRequest' = <<>>
    /\ toast' = "Admins have been updated successfully"
    /\ UNCHANGED <<storeVars, saveVars, route, admins, errors, data>>
    /\ UNCHANGED <<storeCall, restVars>>

UpdateAdminsReject ==
    /\ umRequest # <<>>
    /\ umRequest' = <<>>
    /\ errors' = <<"request failed">>
    /\ toast' = "Failed to update Admins."
    /\ UNCHANGED <<storeVars, saveVars, route, admins, netVars>>
    /\ UNCHANGED <<storeCall, restVars>>

----------------------------------------------------------------------------
(* _main.tsx: the layout's Save control *)

\* a control that stays enabled while a save is outstanding
SaveDisabledIgnoringSaving == ~hasPendingChanges

\* a control that is enabled whenever no save is running
SaveDisabledIgnoringPending == isSaving

\* <Button disabled={!hasPendingChanges || isSaving}>
SaveDisabled == ~hasPendingChanges \/ isSaving

\* `changes.slot && Object.keys(changes.slot).length > 0`
HasKeys(obj, slot) == slot \in DOMAIN obj /\ Cardinality(Keys(obj[slot])) > 0

\* the try block ran to its end: clearChanges(), the success toast, finally
SaveSucceeded ==
    /\ SetPendingChanges(clearChanges(pendingChanges))
    /\ toast' = "Configuration saved successfully"
    /\ isSaving' = FALSE
    /\ savePc' = "idle"
    /\ changes' = EmptyObj

\* a catch block that also drops the edits
SaveFailedClearing ==
    /\ SetPendingChanges(EmptyObj)
    /\ toast' = "Failed to save configuration"
    /\ isSaving' = FALSE
    /\ savePc' = "idle"
    /\ changes' = EmptyObj

\* an awaited mutation rejected: the catch block, then finally
SaveFailed ==
    /\ toast' = "Failed to save configuration"
    /\ isSaving' = FALSE
    /\ savePc' = "idle"
    /\ changes' = EmptyObj
    /\ UNCHANGED storeVars

\* handleSave suspends on updateAIProviderMutation.mutateAsync(ch.aiProvider)
SendAIProvider(ch) ==
    /\ savePc' = "aiProvider"
    /\ isSaving' = TRUE
    /\ changes' = ch
    /\ toast' = "none"
    /\ UNCHANGED storeVars

\* handleSave from `// Save AI provider changes` on
AfterConfigSaved(ch) ==
    IF HasKeys(ch, "aiProvider") THEN SendAIProvider(ch) ELSE SaveSucceeded

\* handleSave: the button calls it while it is enabled; the handler's own test
\* of hasPendingChanges answers a call made with nothing pending
HandleSave ==
    /\ ~SaveDisabled \/ ~hasPendingChanges
    /\ LET ch == getPendingChanges
       IN IF ~hasPendingChanges
          THEN /\ toast' = "No changes to save"
               /\ UNCHANGED <<storeVars, saveVars>>
          ELSE IF HasKeys(ch, "config")
               THEN /\ savePc' = "config"
                    /\ isSaving' = TRUE
                    /\ changes' = ch
                    /\ toast' = "none"
                    /\ UNCHANGED storeVars
               ELSE AfterConfigSaved(ch)
    /\ UNCHANGED <<pageVars, netVars>>
    /\ UNCHANGED <<storeCall, restVars>>

UpdateConfigResolve ==
    /\ savePc = "config"
    /\ CanCommit
    /\ serverConfig' = PatchConfig(serverConfig, changes.config)
    /\ AfterConfigSaved(changes)
    /\ UNCHANGED <<pageVars, data>>
    /\ UNCHANGED <<storeCall, restVars>>

\* a handler that goes on to the AI provider request after a rejected PATCH
UpdateConfigRejectContinuing ==
    /\ savePc = "config"
    /\ AfterConfigSaved(changes)
    /\ UNCHANGED <<pageVars, netVars>>
    /\ UNCHANGED <<storeCall, restVars>>

UpdateConfigReject ==
    /\ savePc = "config"
    /\ SaveFailed
    /\ UNCHANGED <<pageVars, netVars>>
    /\ UNCHANGED <<storeCall, restVars>>

UpdateAIProviderResolve ==
    /\ savePc = "aiProvider"
    /\ CanCommit
    /\ serverConfig' = PatchAIProvider(serverConfig)
    /\ SaveSucceeded
    /\ UNCHANGED <<pageVars, data>>
    /\ UNCHANGED <<storeCall, restVars>>

UpdateAIProviderReject ==
    /\ savePc = "aiProvider"
    /\ SaveFailed
    /\ UNCHANGED <<pageVars, netVars>>
    /\ UNCHANGED <<storeCall, restVars>>

----------------------------------------------------------------------------
NoCall == [op |-> "none", arg |-> EmptyObj]
NoHookCall == [called |-> FALSE]
Callers == {"c1", "c2"}
IdleTask == [pc |-> "idle"]

\* AuthProvider's initial state
InitialAuthState ==
    [user |-> Null, tokens |-> Null, isAuthenticated |-> FALSE, isLoading |-> TRUE]

\* the parts of the application outside the dashboard's pages, at rest
RestInit ==
    /\ hookResult = NoHookCall
    /\ authState = InitialAuthState
    /\ localStorage = Null
    /\ initAuth = [pc |-> "start"]
    /\ logoutCall = IdleTask
    /\ refreshCall = IdleTask
    /\ blockCalls = [c \in Callers |-> IdleTask]

InitialAIConfig == [maxDailyImages |-> 3, boostImagePrompts |-> FALSE]

InitialConfig ==
    [adminIds |-> <<ValidId(1)>>, mentionCooldown |-> 20, configVersion |-> 0,
     invisible |-> FALSE, aiConfig |-> InitialAIConfig,
     deleteUserMessages |-> [enabled |-> FALSE, userIds |-> <<7>>]]

Init ==
    /\ pendingChanges = EmptyObj
    /\ hasPendingChanges = FALSE
    /\ config = PageConfig("bots", InitialConfig, EmptyObj)
    /\ isSaving = FALSE
    /\ savePc = "idle"
    /\ changes = EmptyObj
    /\ toast = "none"
    /\ route = "bots"
    /\ admins = <<>>
    /\ errors = <<>>
    /\ umRequest = <<>>
    /\ serverConfig = InitialConfig
    /\ data = InitialConfig
    /\ storeCall = NoCall
    /\ RestInit

Next ==
    \/ \E u \in PageUpdates : BotsHandleUpdate(u)
    \/ \E u \in AppAIUpdates : AIConfigEdit(u)
    \/ \E u \in ProviderUpdates : AIHandleUpdateProvider(u)
    \/ \E id \in AdminInputs : HandleAddAdmin(id)
    \/ \E id \in AdminInputs : HandleRemoveAdmin(id)
    \/ HandleUndo
    \/ HandleSaveChanges
    \/ UpdateAdminsResolve
    \/ UpdateAdminsReject
    \/ HandleSave
    \/ UpdateConfigResolve
    \/ UpdateConfigReject
    \/ UpdateAIProviderResolve
    \/ UpdateAIProviderReject
    \/ Refetch
    \/ \E r \in Routes : Navigate(r)

Spec == Init /\ [][Next]_vars

----------------------------------------------------------------------------
(* The AI page under the layout, without the other pages' handlers *)

\* the general AI settings the page's inputs edit, one at a time
AIGeneralUpdates == AIPageUpdates \cup {("boostImagePrompts" :> TRUE)}

AIPageNext ==
    \/ \E u \in AIGeneralUpdates : AIHandleUpdate(u)
    \/ \E u \in AIPageProviderUpdates : AIHandleUpdateProvider(u)
    \/ \E u \in AppAIUpdates : AIConfigEdit(u)
    \/ HandleSave
    \/ UpdateConfigResolve
    \/ UpdateConfigReject
    \/ UpdateAIProviderResolve
    \/ UpdateAIProviderReject
    \/ Refetch
    \/ \E r \in {"bots", "ai"} : Navigate(r)

AIPageSpec == Init /\ [][AIPageNext]_vars

----------------------------------------------------------------------------
(* The user-management page once mounted: its handlers, the layout's Save and
   the query refetching in the background *)

UserManagementNext ==
    \/ Navigate("user-management")
    \/ \E id \in AdminInputs : HandleAddAdmin(id)
    \/ \E id \in AdminInputs : HandleRemoveAdmin(id)
    \/ HandleUndo
    \/ HandleSaveChanges
    \/ UpdateAdminsResolve
    \/ UpdateAdminsReject
    \/ HandleSave
    \/ UpdateConfigResolve
    \/ UpdateConfigReject
    \/ Refetch

UserManagementSpec == Init /\ [][UserManagementNext]_vars

----------------------------------------------------------------------------
(* auth-context.tsx: AuthProvider, with the storage helpers of the auth library.
   Times are in seconds: Date.now() and both sides of the expiry comparison are
   divided by 1000. *)

\* Date.now() at mount
Now == 1700000000
\* expires_in of a token response: the token's lifetime
TokenLifetime == 604800
FiveMinutes == 5 * 60

\* an AuthTokens value; obtainedAt is the time of the response that carried it,
\* which AuthTokens has no field for and the program does not keep
Token(access, obtainedAt) ==
    [access_token |-> access, refresh_token |-> "r", expires_in |-> TokenLifetime,
     obtainedAt |-> obtainedAt]

\* a stored token with a week less an hour to live, and one with a minute
StoredTokens == {Token("a1", Now - 3600), Token("a0", (Now - TokenLifetime) + 60)}
RefreshedTokens == Token("a2", Now)
LoginTokens == Token("a3", Now)
DiscordUsers == {[id |-> "7", username |-> "a"], [id |-> "7", username |-> "b"]}

ExpiresAt(tokens) == tokens.obtainedAt + tokens.expires_in

\* saveAuthState: the item holds the JSON text of the state
saveAuthState(state) == [json |-> state]
\* an item that JSON.parse rejects
CorruptItem == [text |-> "{"]
\* loadAuthState: null when the item is absent or does not parse
loadAuthState(storage) ==
    IF storage = Null THEN Null
    ELSE IF "json" \in DOMAIN storage THEN storage.json ELSE Null
\* clearAuthState
clearAuthState == Null

StoredItems ==
    {Null, CorruptItem}
        \cup {saveAuthState([user |-> [id |-> "7", username |-> "a"], tokens |-> t]) :
                 t \in StoredTokens}

Authenticated(user, tokens) ==
    [user |-> user, tokens |-> tokens, isAuthenticated |-> TRUE, isLoading |-> FALSE]
SignedOut ==
    [user |-> Null, tokens |-> Null, isAuthenticated |-> FALSE, isLoading |-> FALSE]

\* initAuth's test, as the code computes it: tokenExpiry - now < 5 * 60 * 1000
\* with tokenExpiry = expires_in * 1000
NeedsRefresh(tokens, now) == tokens.expires_in - now < FiveMinutes

\* initAuth up to its first await, or to its end when it awaits nothing
InitAuthStart ==
    /\ initAuth.pc = "start"
    /\ LET stored == loadAuthState(localStorage)
       IN IF stored = Null
          THEN /\ authState' = [authState EXCEPT !.isLoading = FALSE]
               /\ initAuth' = [pc |-> "done"]
          ELSE IF NeedsRefresh(stored.tokens, Now)
               THEN /\ initAuth' = [pc |-> "refreshing", stored |-> stored]
                    /\ UNCHANGED authState
               ELSE /\ authState' = Authenticated(stored.user, stored.tokens)
                    /\ initAuth' = [pc |-> "done"]
    /\ UNCHANGED <<localStorage, logoutCall, refreshCall>>
    /\ UNCHANGED <<storeVars, appVars, storeCall, hookResult, blockCalls>>

InitAuthRefreshResolve ==
    /\ initAuth.pc = "refreshing"
    /\ localStorage' = saveAuthState([user |-> initAuth.stored.user, tokens |-> RefreshedTokens])
    /\ authState' = Authenticated(initAuth.stored.user, RefreshedTokens)
    /\ initAuth' = [pc |-> "done"]
    /\ UNCHANGED <<logoutCall, refreshCall>>
    /\ UNCHANGED <<storeVars, appVars, storeCall, hookResult, blockCalls>>

InitAuthRefreshReject ==
    /\ initAuth.pc = "refreshing"
    /\ localStorage' = clearAuthState
    /\ authState' = SignedOut
    /\ initAuth' = [pc |-> "done"]
    /\ UNCHANGED <<logoutCall, refreshCall>>
    /\ UNCHANGED <<storeVars, appVars, storeCall, hookResult, blockCalls>>

\* the provider's operations are called by what is rendered once loading is over
login(tokens, user) ==
    /\ ~authState.isLoading
    /\ localStorage' = saveAuthState([user |-> user, tokens |-> tokens])
    /\ authState' = Authenticated(user, tokens)
    /\ UNCHANGED <<initAuth, logoutCall, refreshCall>>
    /\ UNCHANGED <<storeVars, appVars, storeCall, hookResult, blockCalls>>

\* logout() up to its await of revokeToken, or to its end when it holds no tokens
LogoutStart ==
    /\ ~authState.isLoading
    /\ logoutCall.pc \in {"idle", "done"}
    /\ IF authState.tokens # Null
       THEN /\ logoutCall' = [pc |-> "revoking"]
            /\ UNCHANGED <<authState, localStorage>>
       ELSE /\ localStorage' = clearAuthState
            /\ authState' = SignedOut
            /\ logoutCall' = [pc |-> "done"]
    /\ UNCHANGED <<initAuth, refreshCall>>
    /\ UNCHANGED <<storeVars, appVars, storeCall, hookResult, blockCalls>>

\* revokeToken settled either way: its error is caught and logged
LogoutRevokeSettled ==
    /\ logoutCall.pc = "revoking"
    /\ localStorage' = clearAuthState
    /\ authState' = SignedOut
    /\ logoutCall' = [pc |-> "done"]
    /\ UNCHANGED <<initAuth, refreshCall>>
    /\ UNCHANGED <<storeVars, appVars, storeCall, hookResult, blockCalls>>

\* refreshUser() up to its first await; the callback keeps the tokens of its render
RefreshUserStart ==
    /\ ~authState.isLoading
    /\ refreshCall.pc = "idle"
    /\ authState.tokens # Null
    /\ refreshCall' = [pc |-> "getUser", tokens |-> authState.tokens]
    /\ UNCHANGED <<authState, localStorage, initAuth, logoutCall>>
    /\ UNCHANGED <<storeVars, appVars, storeCall, hookResult, blockCalls>>

RefreshUserResolve(user) ==
    /\ refreshCall.pc = "getUser"
    /\ localStorage' = saveAuthState([user |-> user, tokens |-> refreshCall.tokens])
    /\ authState' = [authState EXCEPT !.user = user]
    /\ refreshCall' = IdleTask
    /\ UNCHANGED <<initAuth, logoutCall>>
    /\ UNCHANGED <<storeVars, appVars, storeCall, hookResult, blockCalls>>

\* getDiscordUser failed: the catch block asks for new tokens
RefreshUserReject ==
    /\ refreshCall.pc = "getUser"
    /\ refreshCall' = IF refreshCall.tokens.refresh_token # ""
                      THEN [refreshCall EXCEPT !.pc = "refreshToken"]
                      ELSE IdleTask
    /\ UNCHANGED <<authState, localStorage, initAuth, logoutCall>>
    /\ UNCHANGED <<storeVars, appVars, storeCall, hookResult, blockCalls>>

RefreshUserTokenResolve ==
    /\ refreshCall.pc = "refreshToken"
    /\ refreshCall' = [pc |-> "getUserAgain", tokens |-> refreshCall.tokens,
                       newTokens |-> RefreshedTokens]
    /\ UNCHANGED <<authState, localStorage, initAuth, logoutCall>>
    /\ UNCHANGED <<storeVars, appVars, storeCall, hookResult, blockCalls>>

RefreshUserAgainResolve(user) ==
    /\ refreshCall.pc = "getUserAgain"
    /\ localStorage' = saveAuthState([user |-> user, tokens |-> refreshCall.newTokens])
    /\ authState' = [authState EXCEPT !.user = user, !.tokens = refreshCall.newTokens]
    /\ refreshCall' = IdleTask
    /\ UNCHANGED <<initAuth, logoutCall>>
    /\ UNCHANGED <<storeVars, appVars, storeCall, hookResult, blockCalls>>

\* either await of the inner try failed: `await logout()` with the callback's
\* own logout, whose render held tokens, so it awaits revokeToken
RefreshUserRetryReject ==
    /\ refreshCall.pc \in {"refreshToken", "getUserAgain"}
    /\ refreshCall' = [pc |-> "revoking", tokens |-> refreshCall.tokens]
    /\ UNCHANGED <<authState, localStorage, initAuth, logoutCall>>
    /\ UNCHANGED <<storeVars, appVars, storeCall, hookResult, blockCalls>>

RefreshUserLogoutSettled ==
    /\ refreshCall.pc = "revoking"
    /\ localStorage' = clearAuthState
    /\ authState' = SignedOut
    /\ refreshCall' = IdleTask
    /\ UNCHANGED <<initAuth, logoutCall>>
    /\ UNCHANGED <<storeVars, appVars, storeCall, hookResult, blockCalls>>

AuthInit ==
    /\ pendingChanges = EmptyObj
    /\ hasPendingChanges = FALSE
    /\ config = PageConfig("bots", InitialConfig, EmptyObj)
    /\ isSaving = FALSE
    /\ savePc = "idle"
    /\ changes = EmptyObj
    /\ toast = "none"
    /\ route = "bots"
    /\ admins = <<>>
    /\ errors = <<>>
    /\ umRequest = <<>>
    /\ serverConfig = InitialConfig
    /\ data = InitialConfig
    /\ storeCall = NoCall
    /\ hookResult = NoHookCall
    /\ authState = InitialAuthState
    /\ localStorage \in StoredItems
    /\ initAuth = [pc |-> "start"]
    /\ logoutCall = IdleTask
    /\ refreshCall = IdleTask
    /\ blockCalls = [c \in Callers |-> IdleTask]

AuthNext ==
    \/ InitAuthStart
    \/ InitAuthRefreshResolve
    \/ InitAuthRefreshReject
    \/ \E u \in DiscordUsers : login(LoginTokens, u)
    \/ LogoutStart
    \/ LogoutRevokeSettled
    \/ RefreshUserStart
    \/ \E u \in DiscordUsers : RefreshUserResolve(u)
    \/ RefreshUserReject
    \/ RefreshUserTokenResolve
    \/ \E u \in DiscordUsers : RefreshUserAgainResolve(u)
    \/ RefreshUserRetryReject
    \/ RefreshUserLogoutSettled

AuthSpec == AuthInit /\ [][AuthNext]_vars

----------------------------------------------------------------------------
(* api-client.ts: the block-list helpers of ConfigAPIClient, called by two
   callers whose requests reach the backend in any order *)

BlockUserIds == {"u1", "u2"}

\* config.config?.globalBlockList || []
CurrentList(doc) ==
    IF "globalBlockList" \in DOMAIN doc THEN doc.globalBlockList ELSE <<>>

\* the error fetch() throws for a response that is not ok
HttpError == "HTTP 500"

\* addToBlockList appending without looking at the fetched list
AfterGetConfigUnchecked(call, doc) ==
    LET currentList == CurrentList(doc)
    IN IF call.op = "add"
       THEN [pc |-> "updateConfig", op |-> call.op, userId |-> call.userId,
             fetched |-> currentList,
             body |-> ("globalBlockList" :> Append(currentList, call.userId))]
       ELSE [pc |-> "updateConfig", op |-> call.op, userId |-> call.userId,
             fetched |-> currentList,
             body |-> ("globalBlockList" :> Without(currentList, call.userId))]

\* the helper from the resolution of getConfig() to its throw or to its PATCH
AfterGetConfig(call, doc) ==
    LET currentList == CurrentList(doc)
    IN IF call.op = "add"
       THEN IF Includes(currentList, call.userId)
            THEN [pc |-> "threw", op |-> call.op, userId |-> call.userId,
                  fetched |-> currentList, message |-> "User already blocked"]
            ELSE [pc |-> "updateConfig", op |-> call.op, userId |-> call.userId,
                  fetched |-> currentList,
                  body |-> ("globalBlockList" :> Append(currentList, call.userId))]
       ELSE [pc |-> "updateConfig", op |-> call.op, userId |-> call.userId,
             fetched |-> currentList,
             body |-> ("globalBlockList" :> Without(currentList, call.userId))]

Settled(call) == call.pc \in {"idle", "resolved", "threw"}

addToBlockList(c, userId) ==
    /\ Settled(blockCalls[c])
    /\ blockCalls' = [blockCalls EXCEPT ![c] = [pc |-> "getConfig", op |-> "add",
                                                userId |-> userId]]
    /\ UNCHANGED <<storeVars, appVars, storeCall, hookResult, authVars>>

removeFromBlockList(c, userId) ==
    /\ Settled(blockCalls[c])
    /\ blockCalls' = [blockCalls EXCEPT ![c] = [pc |-> "getConfig", op |-> "remove",
                                                userId |-> userId]]
    /\ UNCHANGED <<storeVars, appVars, storeCall, hookResult, authVars>>

GetConfigResolve(c) ==
    /\ blockCalls[c].pc = "getConfig"
    /\ blockCalls' = [blockCalls EXCEPT ![c] = AfterGetConfig(@, serverConfig)]
    /\ UNCHANGED <<storeVars, appVars, storeCall, hookResult, authVars>>

GetConfigReject(c) ==
    /\ blockCalls[c].pc = "getConfig"
    /\ blockCalls' = [blockCalls EXCEPT ![c] =
                         [pc |-> "threw", op |-> @.op, userId |-> @.userId,
                          fetched |-> <<>>, message |-> HttpError]]
    /\ UNCHANGED <<storeVars, appVars, storeCall, hookResult, authVars>>

BlockUpdateConfigResolve(c) ==
    /\ blockCalls[c].pc = "updateConfig"
    /\ CanCommit
    /\ serverConfig' = PatchConfig(serverConfig, blockCalls[c].body)
    /\ blockCalls' = [blockCalls EXCEPT ![c].pc = "resolved"]
    /\ UNCHANGED <<storeVars, saveVars, toast, pageVars, data, storeCall, hookResult,
                   authVars>>

BlockUpdateConfigReject(c) ==
    /\ blockCalls[c].pc = "updateConfig"
    /\ blockCalls' = [blockCalls EXCEPT ![c] =
                         [pc |-> "threw", op |-> @.op, userId |-> @.userId,
                          fetched |-> @.fetched, message |-> HttpError]]
    /\ UNCHANGED <<storeVars, appVars, storeCall, hookResult, authVars>>

\* the lists of at most two ids that hold no id twice
InitialBlockLists ==
    {<<>>} \cup {<<u>> : u \in BlockUserIds}
        \cup {<<p[1], p[2]>> : p \in {q \in BlockUserIds \X BlockUserIds : q[1] # q[2]}}

BlockInit ==
    /\ serverConfig \in {InitialConfig @@ ("globalBlockList" :> l) : l \in InitialBlockLists}
    /\ data = serverConfig
    /\ config = PageConfig("bots", data, EmptyObj)
    /\ pendingChanges = EmptyObj
    /\ hasPendingChanges = FALSE
    /\ isSaving = FALSE
    /\ savePc = "idle"
    /\ changes = EmptyObj
    /\ toast = "none"
    /\ route = "bots"
    /\ admins = <<>>
    /\ errors = <<>>
    /\ umRequest = <<>>
    /\ storeCall = NoCall
    /\ RestInit

BlockNext ==
    \/ \E c \in Callers, u \in BlockUserIds : addToBlockList(c, u)
    \/ \E c \in Callers, u \in BlockUserIds : removeFromBlockList(c, u)
    \/ \E c \in Callers : GetConfigResolve(c)
    \/ \E c \in Callers : GetConfigReject(c)
    \/ \E c \in Callers : BlockUpdateConfigResolve(c)
    \/ \E c \in Callers : BlockUpdateConfigReject(c)

BlockSpec == BlockInit /\ [][BlockNext]_vars

----------------------------------------------------------------------------
(* The store on its own: its three operations called in any order *)

Arrays == UNION {[1..n -> {1}] : n \in 0..MaxArrayLen}
Objects == UNION {[D -> ScalarVals] : D \in SUBSET Fields}
AIValues ==
    {[s |-> v] : v \in ScalarVals} \cup {[a |-> q] : q \in Arrays}
        \cup {[o |-> f] : f \in Objects}
PairValues == {[s |-> 1], [o |-> ("y" :> 2)]}
AIUpdates ==
    {EmptyObj} \cup {(k :> v) : k \in AIKeys, v \in AIValues}
        \cup {("openai" :> v) @@ ("ollama" :> w) : v \in PairValues, w \in PairValues}
CfgUpdates ==
    {EmptyObj, ("invisible" :> TRUE)}
        \cup {("mentionCooldown" :> c) : c \in CooldownValues}
        \cup {("mentionCooldown" :> c) @@ ("invisible" :> TRUE) : c \in CooldownValues}

StoreAddConfigChange(updates) ==
    /\ SetPendingChanges(addConfigChange(pendingChanges, updates))
    /\ storeCall' = [op |-> "addConfigChange", arg |-> updates]
    /\ UNCHANGED <<appVars, restVars>>

StoreAddAIConfigChange(updates) ==
    /\ SetPendingChanges(addAIConfigChange(pendingChanges, updates))
    /\ storeCall' = [op |-> "addAIConfigChange", arg |-> updates]
    /\ UNCHANGED <<appVars, restVars>>

StoreClearChanges ==
    /\ SetPendingChanges(clearChanges(pendingChanges))
    /\ storeCall' = [op |-> "clearChanges", arg |-> EmptyObj]
    /\ UNCHANGED <<appVars, restVars>>

StoreNext ==
    \/ \E u \in CfgUpdates : StoreAddConfigChange(u)
    \/ \E u \in AIUpdates : StoreAddAIConfigChange(u)
    \/ StoreClearChanges

StoreSpec == Init /\ [][StoreNext]_vars

----------------------------------------------------------------------------
(* useConfigChanges(), called by components under the provider and outside it *)

\* the value ConfigChangesProvider hands to its context (the data members)
ContextValue(pc) == [pendingChanges |-> pc, hasPendingChanges |-> HasPending(pc)]

\* useContext(ConfigChangesContext): the default value is undefined
UseContext(underProvider) ==
    IF underProvider THEN ContextValue(pendingChanges) ELSE Undefined

\* a hook that hands on whatever the context holds
useConfigChangesUnguarded(context) == [returned |-> context]

useConfigChanges(context) ==
    IF context = Undefined
    THEN [threw |-> "useConfigChanges must be used within ConfigChangesProvider"]
    ELSE [returned |-> context]

\* a component renders and calls the hook
CallUseConfigChanges(underProvider) ==
    /\ hookResult' = [called |-> TRUE, underProvider |-> underProvider,
                      outcome |-> useConfigChanges(UseContext(underProvider))]
    /\ UNCHANGED <<storeVars, appVars, storeCall, authVars, blockCalls>>

HookNext ==
    \/ \E u \in CfgUpdates : StoreAddConfigChange(u)
    \/ \E u \in AppAIUpdates : StoreAddAIConfigChange(u)
    \/ StoreClearChanges
    \/ \E b \in BOOLEAN : CallUseConfigChanges(b)

HookSpec == Init /\ [][HookNext]_vars

----------------------------------------------------------------------------
(* The display merge of BotsPage over any fetched snapshot and any generic patch *)

ScalarKeys == {"mentionCooldown", "invisible"}
DeleteUserMessagesConfigs == {[enabled |-> e, userIds |-> <<7>>] : e \in BOOLEAN}
ServerConfigs ==
    {[InitialConfig EXCEPT !.mentionCooldown = c, !.invisible = b,
                           !.deleteUserMessages = d] :
        c \in CooldownValues, b \in BOOLEAN, d \in DeleteUserMessagesConfigs}

\* updates of scalar fields, of a nested object in full, and of a part of it
ScalarUpdates ==
    {("mentionCooldown" :> c) : c \in CooldownValues}
        \cup {("invisible" :> b) : b \in BOOLEAN}
        \cup {("mentionCooldown" :> 45) @@ ("invisible" :> TRUE)}
NestedUpdates ==
    {("deleteUserMessages" :> d) : d \in DeleteUserMessagesConfigs}
        \cup {("deleteUserMessages" :> ("enabled" :> TRUE))}
MergeUpdates == {EmptyObj} \cup ScalarUpdates \cup NestedUpdates

MergeInit ==
    /\ data \in ServerConfigs
    /\ serverConfig = data
    /\ config = PageConfig("bots", data, EmptyObj)
    /\ pendingChanges = EmptyObj
    /\ hasPendingChanges = FALSE
    /\ isSaving = FALSE
    /\ savePc = "idle"
    /\ changes = EmptyObj
    /\ toast = "none"
    /\ route = "bots"
    /\ admins = <<>>
    /\ errors = <<>>
    /\ umRequest = <<>>
    /\ storeCall = NoCall
    /\ RestInit

MergeNext ==
    \/ \E u \in MergeUpdates : StoreAddConfigChange(u)
    \/ \E u \in AppAIUpdates : StoreAddAIConfigChange(u)
    \/ StoreClearChanges

MergeSpec == MergeInit /\ [][MergeNext]_vars

----------------------------------------------------------------------------
(* Properties *)

SaveFailedToast == "Failed to save configuration"
SaveOkToast == "Configuration saved successfully"
AdminsOkToast == "Admins have been updated successfully"
UndoToast == "Changes discarded"

SlotEmpty(pc, slot) == Keys(Slot(pc, slot)) = {}

\* the requests the running handleSave has sent so far, by slot
Submitted ==
    LET sentSlots == IF savePc = "config" THEN {"config"}
                     ELSE IF savePc = "aiProvider" THEN {"config", "aiProvider"}
                     ELSE {}
    IN [slot \in {x \in sentSlots : HasKeys(changes, x)} |-> changes[slot]]

\* C1: a step on which the save reports a failure leaves the store as it was,
\* every edit captured when Save was triggered is still in it, the flag
\* hasPendingChanges is true, and the Save control is enabled again.
C1_RejectedSaveKeepsEdits ==
    [][toast' = SaveFailedToast =>
          /\ pendingChanges' = pendingChanges
          /\ \A slot \in DOMAIN changes :
                /\ slot \in DOMAIN pendingChanges'
                /\ Keys(changes[slot]) \subseteq Keys(pendingChanges'[slot])
          /\ hasPendingChanges'
          /\ ~isSaving'
          /\ ~SaveDisabled']_vars

C1_Witness ==
    /\ toast = SaveFailedToast
    /\ HasKeys(pendingChanges, "config")
    /\ hasPendingChanges
    /\ ~SaveDisabled

\* C2: whenever a Save empties the store, every non-empty slot the store held
\* had been sent to the backend, with the content the store held.
C2_SaveSubmitsEveryEdit ==
    [][(pendingChanges # EmptyObj /\ pendingChanges' = EmptyObj) =>
          \A slot \in DOMAIN pendingChanges :
              ~SlotEmpty(pendingChanges, slot) =>
                  /\ slot \in DOMAIN Submitted
                  /\ Submitted[slot] = pendingChanges[slot]]_vars

\* C3: after a successful save, from the layout or from the user-management
\* page, both slots are empty and hasPendingChanges is false.
C3_SuccessfulSaveEmptiesStore ==
    [][toast' \in {SaveOkToast, AdminsOkToast} =>
          /\ SlotEmpty(pendingChanges', "config")
          /\ SlotEmpty(pendingChanges', "aiConfig")
          /\ ~hasPendingChanges']_vars

\* C4: after the Undo button of the admin list, both slots are empty and
\* hasPendingChanges is false.
C4_UndoEmptiesStore ==
    [][toast' = UndoToast =>
          /\ SlotEmpty(pendingChanges', "config")
          /\ SlotEmpty(pendingChanges', "aiConfig")
          /\ ~hasPendingChanges']_vars

\* C5: while a save of the layout is outstanding the Save control is
\* disabled, and handleSave captures a new set of changes to submit only
\* when no save is outstanding.
C5_OneSaveInFlight ==
    /\ [](savePc # "idle" => (isSaving /\ SaveDisabled))
    /\ [][(changes' # EmptyObj /\ changes' # changes) => savePc = "idle"]_vars

C5_Witness ==
    /\ savePc = "config"
    /\ hasPendingChanges
    /\ pendingChanges # changes
    /\ SaveDisabled

\* C6: hasPendingChanges is false exactly when the generic slot and the AI
\* slot both have no keys (an absent slot has none).
C6_FlagIffSomeKey ==
    hasPendingChanges <=>
        (~SlotEmpty(pendingChanges, "config") \/ ~SlotEmpty(pendingChanges, "aiConfig"))

C6_Witness ==
    /\ "config" \in DOMAIN pendingChanges
    /\ SlotEmpty(pendingChanges, "config")
    /\ ~SlotEmpty(pendingChanges, "aiConfig")
    /\ hasPendingChanges

\* C7: whatever the adds before it, a call of clearChanges leaves both slots
\* without keys and hasPendingChanges false.
C7_ClearYieldsEmpty ==
    storeCall.op = "clearChanges" =>
        /\ SlotEmpty(pendingChanges, "config")
        /\ SlotEmpty(pendingChanges, "aiConfig")
        /\ ~hasPendingChanges

C7_Witness ==
    /\ storeCall.op = "clearChanges"
    /\ pendingChanges = EmptyObj
    /\ ~hasPendingChanges

\* the AI patch before and after a step, and the argument of the call
OldAi == Slot(pendingChanges, "aiConfig")
NewAi == Slot(pendingChanges', "aiConfig")
CallArg == storeCall'.arg
IsAICall == storeCall'.op = "addAIConfigChange"

\* C8: when addAIConfigChange is given a non-array object under key a, the
\* entry for a afterwards is an object holding every field of the update with
\* the update's value and every other nested field the entry held before.
C8_DeepMergeOneLevel ==
    [][IsAICall =>
          \A key \in DOMAIN CallArg :
              IsPlainObject(CallArg[key]) =>
                  /\ key \in DOMAIN NewAi
                  /\ IsPlainObject(NewAi[key])
                  /\ \A f \in DOMAIN CallArg[key].o :
                        /\ f \in DOMAIN NewAi[key].o
                        /\ NewAi[key].o[f] = CallArg[key].o[f]
                  /\ (key \in DOMAIN OldAi /\ IsPlainObject(OldAi[key])) =>
                        \A f \in DOMAIN OldAi[key].o \ DOMAIN CallArg[key].o :
                            /\ f \in DOMAIN NewAi[key].o
                            /\ NewAi[key].o[f] = OldAi[key].o[f]]_vars

C8_Witness ==
    /\ storeCall = [op |-> "addAIConfigChange", arg |-> ("openai" :> [o |-> ("y" :> 2)])]
    /\ pendingChanges.aiConfig["openai"] = [o |-> ("x" :> 1) @@ ("y" :> 2)]

\* C9: addAIConfigChange keeps, unchanged, every entry of the AI patch whose
\* key the update does not name, and the patch holds the update's keys too.
C9_OtherProvidersRetained ==
    [][IsAICall =>
          /\ \A key \in DOMAIN OldAi \ DOMAIN CallArg :
                key \in DOMAIN NewAi /\ NewAi[key] = OldAi[key]
          /\ DOMAIN CallArg \subseteq DOMAIN NewAi]_vars

C9_Witness ==
    /\ storeCall = [op |-> "addAIConfigChange", arg |-> ("ollama" :> [o |-> ("y" :> 2)])]
    /\ pendingChanges.aiConfig = ("openai" :> [o |-> ("x" :> 1)]) @@ ("ollama" :> [o |-> ("y" :> 2)])

\* C10: under a key whose update value is a scalar or an array the entry
\* afterwards is that value, whatever it was before; under a key whose update
\* value is a non-array object the entry afterwards is an object whose fields
\* are those of the update over those the entry had.
C10_ScalarAndArrayOverwrite ==
    [][IsAICall =>
          \A key \in DOMAIN CallArg :
              /\ key \in DOMAIN NewAi
              /\ IF IsPlainObject(CallArg[key])
                 THEN /\ IsPlainObject(NewAi[key])
                      /\ DOMAIN CallArg[key].o \subseteq DOMAIN NewAi[key].o
                      /\ (key \in DOMAIN OldAi /\ IsPlainObject(OldAi[key])) =>
                            DOMAIN NewAi[key].o =
                                DOMAIN OldAi[key].o \cup DOMAIN CallArg[key].o
                      /\ (key \notin DOMAIN OldAi \/ IsScalar(OldAi[key])) =>
                            NewAi[key] = CallArg[key]
                 ELSE NewAi[key] = CallArg[key]]_vars

C10_Witness ==
    /\ storeCall = [op |-> "addAIConfigChange", arg |-> ("openai" :> [a |-> <<1>>])]
    /\ pendingChanges.aiConfig["openai"] = [a |-> <<1>>]
    /\ "ollama" \in DOMAIN pendingChanges.aiConfig

\* the provider patch before and after a step
OldProvider == Slot(pendingChanges, "aiProvider")
NewProvider == Slot(pendingChanges', "aiProvider")

OldCfg == Slot(pendingChanges, "config")
NewCfg == Slot(pendingChanges', "config")
IsCfgCall == storeCall'.op = "addConfigChange"

\* after addConfigChange the generic patch maps every key of the update to the
\* update's value and every other key it had to the value it had
ShallowMerged ==
    /\ "config" \in DOMAIN pendingChanges'
    /\ DOMAIN NewCfg = DOMAIN OldCfg \cup DOMAIN CallArg
    /\ \A k \in DOMAIN CallArg : NewCfg[k] = CallArg[k]
    /\ \A k \in DOMAIN OldCfg \ DOMAIN CallArg : NewCfg[k] = OldCfg[k]

\* C12: addConfigChange shallow-merges the update into the generic patch, and
\* afterwards hasPendingChanges is true exactly when the resulting pending
\* patch (its generic or its AI slot) has a key; after addConfigChange({}) on
\* an empty store the flag is false.
C12_ShallowMergeAndFlag ==
    [][IsCfgCall =>
          /\ ShallowMerged
          /\ hasPendingChanges' <=>
                (~SlotEmpty(pendingChanges', "config")
                    \/ ~SlotEmpty(pendingChanges', "aiConfig"))
          /\ (pendingChanges = EmptyObj /\ CallArg = EmptyObj) => ~hasPendingChanges']_vars

C12_Witness ==
    /\ storeCall = [op |-> "addConfigChange", arg |-> ("mentionCooldown" :> 45)]
    /\ pendingChanges.config = ("invisible" :> TRUE) @@ ("mentionCooldown" :> 45)
    /\ hasPendingChanges

\* addConfigChange({}) was called on the empty store
C12_EmptyWitness ==
    /\ storeCall = [op |-> "addConfigChange", arg |-> EmptyObj]
    /\ pendingChanges = ("config" :> EmptyObj)
    /\ ~hasPendingChanges

\* the generic patch the page overlays
Patch == Slot(pendingChanges, "config")

\* C13: whenever no edit is pending (neither slot has a key), what the page
\* shows is the fetched snapshot itself, whatever the snapshot.
C13_EmptyPatchIsIdentity ==
    (SlotEmpty(pendingChanges, "config") /\ SlotEmpty(pendingChanges, "aiConfig"))
        => config = data

\* right after clearChanges, over a snapshot other than the initial one
C13_Witness ==
    /\ storeCall.op = "clearChanges"
    /\ pendingChanges = EmptyObj
    /\ data.mentionCooldown = 45
    /\ data.invisible
    /\ config = data

\* C14: when the generic patch touches scalar fields only, the merged config
\* has the patch's value under every key of the patch and the snapshot's
\* value under every other key.
C14_ScalarOverlay ==
    DOMAIN Patch \subseteq ScalarKeys =>
        /\ DOMAIN config = DOMAIN data \cup DOMAIN Patch
        /\ \A k \in DOMAIN config :
              config[k] = IF k \in DOMAIN Patch THEN Patch[k] ELSE data[k]

C14_Witness ==
    /\ Patch = ("mentionCooldown" :> 20)
    /\ data.mentionCooldown = 45
    /\ data.invisible
    /\ config.mentionCooldown = 20
    /\ config.invisible

\* C15: when the generic patch carries a nested object under a key, the merged
\* config holds exactly that object under the key: a nested field the patch's
\* object lacks is not taken over from the snapshot.
C15_OneLevelOverlay ==
    \A k \in DOMAIN Patch \cap NestedKeys :
        /\ config[k] = Patch[k]
        /\ \A f \in DOMAIN data[k] \ DOMAIN Patch[k] : f \notin DOMAIN config[k]

C15_Witness ==
    /\ "deleteUserMessages" \in DOMAIN Patch
    /\ Patch.deleteUserMessages = ("enabled" :> TRUE)
    /\ "userIds" \in DOMAIN data.deleteUserMessages
    /\ "userIds" \notin DOMAIN config.deleteUserMessages

\* C16: over a fetched config whose mentionCooldown is 20, after
\* addConfigChange({mentionCooldown: 45}) hasPendingChanges is true and the
\* page shows 45; a clearChanges() that follows makes the page show 20 again.
C16_EditThenClearReverts ==
    /\ []((/\ data.mentionCooldown = 20
           /\ storeCall = [op |-> "addConfigChange", arg |-> ("mentionCooldown" :> 45)])
              => (hasPendingChanges /\ config.mentionCooldown = 45))
    /\ [][(/\ data.mentionCooldown = 20
           /\ storeCall = [op |-> "addConfigChange", arg |-> ("mentionCooldown" :> 45)]
           /\ storeCall'.op = "clearChanges")
              => (config'.mentionCooldown = 20 /\ ~hasPendingChanges')]_vars

C16_Witness ==
    /\ data.mentionCooldown = 20
    /\ storeCall = [op |-> "addConfigChange", arg |-> ("mentionCooldown" :> 45)]
    /\ hasPendingChanges
    /\ config.mentionCooldown = 45

\* C17: a step that changes the store leaves the fetched snapshot as it was,
\* and the snapshot changes only by being replaced with the response of a
\* fetch, on a step that leaves the store as it was.
C17_SnapshotNotMutated ==
    /\ [][pendingChanges' # pendingChanges => data' = data]_vars
    /\ [][data' # data => (data' = serverConfig /\ pendingChanges' = pendingChanges)]_vars

\* an edit is pending and shown, and the snapshot still has the fetched value
C17_Witness ==
    /\ route = "bots"
    /\ Patch = ("mentionCooldown" :> 45)
    /\ config.mentionCooldown = 45
    /\ data.mentionCooldown = 20
    /\ data = serverConfig

\* C18: addConfigChange leaves the AI patch slot as it was (absent stays
\* absent), and addAIConfigChange leaves the generic patch slot as it was.
SameSlot(slot) ==
    /\ (slot \in DOMAIN pendingChanges') <=> (slot \in DOMAIN pendingChanges)
    /\ Slot(pendingChanges', slot) = Slot(pendingChanges, slot)

C18_SlotsIndependent ==
    /\ [][IsCfgCall => SameSlot("aiConfig")]_vars
    /\ [][IsAICall => SameSlot("config")]_vars

C18_Witness ==
    /\ storeCall = [op |-> "addConfigChange", arg |-> ("mentionCooldown" :> 45)]
    /\ Slot(pendingChanges, "config") = ("mentionCooldown" :> 45)
    /\ Slot(pendingChanges, "aiConfig") = ("openai" :> [o |-> ("x" :> 1)])

\* C19: on a page that records edits in the store, every field with a pending
\* value is shown with that value: on the bots page each key of the generic
\* patch, on the AI page the AI configuration the patch carries.
C19_UIShowsEffectiveConfig ==
    /\ route = "bots" => \A k \in DOMAIN Patch : config[k] = Patch[k]
    /\ (route = "ai" /\ "aiConfig" \in DOMAIN Patch) => config = Patch.aiConfig

NoChangesToast == "No changes to save"

\* C20: the Save control is enabled exactly when hasPendingChanges is true and
\* no save of the layout is outstanding; a call of the handler that finds no
\* pending changes sends no request and leaves the store as it was.
C20_SaveEnabledIffPendingAndIdle ==
    /\ [](~SaveDisabled <=> (hasPendingChanges /\ savePc = "idle"))
    /\ [][(~hasPendingChanges /\ HandleSave) =>
             /\ toast' = NoChangesToast
             /\ pendingChanges' = pendingChanges
             /\ savePc' = "idle"
             /\ ~isSaving'
             /\ serverConfig' = serverConfig]_vars

\* the handler was called with nothing pending but an unreported provider patch
C20_Witness ==
    /\ toast = NoChangesToast
    /\ ~hasPendingChanges
    /\ HasKeys(pendingChanges, "aiProvider")
    /\ SaveDisabled
    /\ savePc = "idle"

\* an identifier handleAddAdmin must turn down in the current state
Rejectable(id) == SchemaIssues(id) # <<>> \/ Includes(admins, id)

\* C21: a call of handleAddAdmin with an identifier that fails the schema or
\* is already in the list reports an error inline and leaves the list and the
\* store as they were; the identifiers in the pending adminIds are all valid
\* and pairwise different.
C21_InvalidAdminNeverStored ==
    /\ [][\A id \in AdminInputs :
             (Rejectable(id) /\ HandleAddAdmin(id)) =>
                 /\ errors' # <<>>
                 /\ admins' = admins
                 /\ pendingChanges' = pendingChanges]_vars
    /\ []("adminIds" \in DOMAIN Patch =>
             \A i \in 1..Len(Patch.adminIds) :
                 /\ SchemaIssues(Patch.adminIds[i]) = <<>>
                 /\ Occurrences(Patch.adminIds, Patch.adminIds[i]) = 1)

\* a duplicate was turned down after an edit had reached the store
C21_Witness ==
    /\ route = "user-management"
    /\ errors = <<"This ID is already an admin">>
    /\ "adminIds" \in DOMAIN Patch
    /\ admins = Patch.adminIds
    /\ admins = <<ValidId(1)>>

\* a malformed identifier was turned down
C21_SchemaWitness ==
    /\ route = "user-management"
    /\ errors = <<"Admin ID must be exactly 18 characters">>
    /\ pendingChanges = EmptyObj

\* the AI configuration the generic patch carries
PendingAI(pc) == Slot(Slot(pc, "config"), "aiConfig")

\* the general AI settings whose pending value differs from the fetched one
EditedAI(pc) ==
    {f \in DOMAIN PendingAI(pc) : PendingAI(pc)[f] # data.aiConfig[f]}

\* C23: an edit on the AI page keeps the edits made before it: every setting
\* whose pending value differed from the fetched one still has that pending
\* value after the next edit of the page, beside the setting just edited.
C23_AIEditsAccumulate ==
    [][(route = "ai" /\ PendingAI(pendingChanges') # PendingAI(pendingChanges)) =>
          \A f \in EditedAI(pendingChanges) :
              /\ f \in DOMAIN PendingAI(pendingChanges')
              /\ PendingAI(pendingChanges')[f] = PendingAI(pendingChanges)[f]]_vars

\* C22: a call of useConfigChanges outside the provider throws, and a call
\* under the provider returns the store as it is at the call, never undefined.
C22_HookFailsFastOutsideProvider ==
    /\ [](hookResult.called =>
             IF hookResult.underProvider
             THEN /\ "returned" \in DOMAIN hookResult.outcome
                  /\ hookResult.outcome.returned # Undefined
             ELSE "threw" \in DOMAIN hookResult.outcome)
    /\ [][(hookResult' # hookResult /\ hookResult'.underProvider) =>
             /\ "returned" \in DOMAIN hookResult'.outcome
             /\ hookResult'.outcome.returned.pendingChanges = pendingChanges
             /\ hookResult'.outcome.returned.hasPendingChanges = hasPendingChanges]_vars

\* a call outside the provider threw while the store held edits
C22_Witness ==
    /\ hookResult.called
    /\ ~hookResult.underProvider
    /\ "threw" \in DOMAIN hookResult.outcome
    /\ hasPendingChanges

\* a step on which the request handleSave waits for is answered
ConfigPatchAccepted == savePc = "config" /\ serverConfig' # serverConfig
ConfigPatchRejected == savePc = "config" /\ savePc' # "config" /\ serverConfig' = serverConfig
ProviderPatchAccepted == savePc = "aiProvider" /\ serverConfig' # serverConfig

\* C24: the AI provider request is sent only once the generic request was
\* accepted or when there was no generic patch to send; a rejected generic
\* request ends the save with the store untouched and no further request;
\* the save clears the store only on the acceptance of the last request it
\* had to send (or when it had none to send).
C24_ConfigFirstStopAtFailure ==
    /\ [][(savePc # "aiProvider" /\ savePc' = "aiProvider") =>
             \/ ConfigPatchAccepted
             \/ (savePc = "idle" /\ ~HasKeys(pendingChanges, "config"))]_vars
    /\ [][ConfigPatchRejected =>
             /\ savePc' = "idle"
             /\ toast' = SaveFailedToast
             /\ pendingChanges' = pendingChanges]_vars
    /\ [][toast' = SaveOkToast =>
             \/ ProviderPatchAccepted
             \/ (ConfigPatchAccepted /\ ~HasKeys(changes, "aiProvider"))
             \/ (/\ savePc = "idle"
                 /\ ~HasKeys(pendingChanges, "config")
                 /\ ~HasKeys(pendingChanges, "aiProvider"))]_vars

\* the generic request was accepted and the AI provider request is out
C24_Witness ==
    /\ savePc = "aiProvider"
    /\ HasKeys(changes, "config")
    /\ HasKeys(changes, "aiProvider")
    /\ serverConfig.configVersion = 1
    /\ pendingChanges = changes

\* the generic request was rejected with a provider patch waiting behind it
C24_RejectWitness ==
    /\ toast = SaveFailedToast
    /\ savePc = "idle"
    /\ HasKeys(pendingChanges, "config")
    /\ HasKeys(pendingChanges, "aiProvider")
    /\ serverConfig.configVersion = 0

\* C25: a call of addConfigChange or addAIConfigChange removes no key from
\* either slot and never turns hasPendingChanges from true to false; the flag
\* falls only on a call of clearChanges.
C25_AddsOnlyGrow ==
    /\ [][(IsCfgCall \/ IsAICall) =>
             /\ Keys(OldCfg) \subseteq Keys(NewCfg)
             /\ Keys(OldAi) \subseteq Keys(NewAi)
             /\ hasPendingChanges => hasPendingChanges']_vars
    /\ [][(hasPendingChanges /\ ~hasPendingChanges') => storeCall'.op = "clearChanges"]_vars

\* an add with an empty update on a store holding both kinds of edits
C25_Witness ==
    /\ storeCall = [op |-> "addAIConfigChange", arg |-> EmptyObj]
    /\ Keys(Slot(pendingChanges, "config")) = {"mentionCooldown", "invisible"}
    /\ Keys(Slot(pendingChanges, "aiConfig")) = {"openai", "ollama"}
    /\ hasPendingChanges

\* C26: on the user-management page, whenever the generic patch holds
\* adminIds, the list the page displays is that pending list.
C26_AdminListAgreesWithPatch ==
    (route = "user-management" /\ "adminIds" \in DOMAIN Patch) =>
        admins = Patch.adminIds

\* nothing stored and nobody signed in
LoggedOut ==
    /\ localStorage = Null
    /\ authState.user = Null
    /\ authState.tokens = Null
    /\ ~authState.isAuthenticated

\* C27: the step that completes logout() leaves nothing stored and nobody
\* signed in, and from then on every step other than a login() keeps it so,
\* the late completion of a refreshUser() included.
C27_LogoutIsFinal ==
    /\ [][((LogoutStart \/ LogoutRevokeSettled) /\ logoutCall'.pc = "done") =>
             LoggedOut']_vars
    /\ [][(logoutCall.pc = "done" /\ LoggedOut
             /\ ~(\E u \in DiscordUsers : login(LoginTokens, u))) => LoggedOut']_vars

\* C28: isAuthenticated is true exactly when user and tokens are both set.
C28_AuthenticatedIffUserAndTokens ==
    authState.isAuthenticated <=> (authState.user # Null /\ authState.tokens # Null)

\* the token's lifetime ends within five minutes of the mount, or has ended
WithinFiveMinutesOfExpiry(tokens) == ExpiresAt(tokens) - Now < FiveMinutes

\* C29: on mount with a stored state whose token is further than five minutes
\* from its expiry, initAuth asks for no refresh: it finishes with the stored
\* token in the state and the stored item untouched.
C29_RefreshOnlyNearExpiry ==
    [][(/\ initAuth.pc = "start"
        /\ initAuth'.pc # "start"
        /\ loadAuthState(localStorage) # Null
        /\ ~WithinFiveMinutesOfExpiry(loadAuthState(localStorage).tokens)) =>
            /\ initAuth'.pc = "done"
            /\ authState'.tokens = loadAuthState(localStorage).tokens
            /\ localStorage' = localStorage]_vars

NoDuplicates(list) == \A i, j \in 1..Len(list) : list[i] = list[j] => i = j

\* C30: the server's block list never holds an id twice. An addToBlockList(u)
\* whose fetched list holds u throws 'User already blocked' and goes on to no
\* PATCH; otherwise its PATCH carries the fetched list with u appended, and
\* when the server's list is still the fetched one as the PATCH is applied the
\* list afterwards is that one, with u in it once.
C30_BlockListHasNoDuplicates ==
    /\ [](NoDuplicates(CurrentList(serverConfig)))
    /\ [][\A c \in Callers :
            (blockCalls[c].pc = "getConfig" /\ blockCalls[c].op = "add"
               /\ blockCalls'[c] # blockCalls[c]
               /\ ~(blockCalls'[c].pc = "threw" /\ blockCalls'[c].message = HttpError)) =>
                IF Includes(CurrentList(serverConfig), blockCalls[c].userId)
                THEN /\ blockCalls'[c].pc = "threw"
                     /\ blockCalls'[c].message = "User already blocked"
                     /\ serverConfig' = serverConfig
                ELSE /\ blockCalls'[c].pc = "updateConfig"
                     /\ blockCalls'[c].body =
                            ("globalBlockList" :>
                                Append(CurrentList(serverConfig), blockCalls[c].userId))]_vars
    /\ [][\A c \in Callers :
            (blockCalls[c].pc = "threw" /\ blockCalls'[c] # blockCalls[c]) =>
                blockCalls'[c].pc = "getConfig"]_vars
    /\ [][\A c \in Callers :
            (blockCalls[c].pc = "updateConfig" /\ blockCalls'[c].pc = "resolved"
               /\ blockCalls[c].op = "add"
               /\ CurrentList(serverConfig) = blockCalls[c].fetched) =>
                /\ CurrentList(serverConfig') =
                       Append(blockCalls[c].fetched, blockCalls[c].userId)
                /\ Occurrences(CurrentList(serverConfig'), blockCalls[c].userId) = 1]_vars

\* an add of a new id went through on a list that held another id
C30_Witness ==
    \E c \in Callers :
        /\ blockCalls[c].pc = "resolved"
        /\ blockCalls[c].op = "add"
        /\ blockCalls[c].fetched = <<"u2">>
        /\ CurrentList(serverConfig) = <<"u2", "u1">>

\* an add of an id the list held was refused, and the list is as it was
C30_ThrowWitness ==
    \E c \in Callers :
        /\ blockCalls[c].pc = "threw"
        /\ blockCalls[c].message = "User already blocked"
        /\ Includes(CurrentList(serverConfig), blockCalls[c].userId)
====
